---- MODULE Spec2Model ----
(***************************************************************************)
(* Freesail multi-agent example: the UI agent ("Agent B", agent_b.py) and  *)
(* the chat agent ("Agent A", agent_a.py), two processes.                  *)
(*                                                                         *)
(* Agent B.                                                                *)
(* The process is one asyncio event loop.  Every action below is the code  *)
(* that runs between two awaits of one coroutine: the background           *)
(* mcp_worker, the lifespan shutdown, and one handle_a2a_task coroutine    *)
(* per incoming task.  The capability provider, the model backend and the  *)
(* clients are the environment: their answers are drawn from small sets.   *)
(*                                                                         *)
(* Fields of task[t] that are not variables of the code: outcome (how      *)
(* execute_ui_generation returned: "done" by the break, else the stage     *)
(* whose exception reached the except branch), nQueries, nToolReplies,     *)
(* nInvokes (counts of model queries, replies with tool calls and session  *)
(* calls) and invoked (the session calls of the running run, in order).    *)
(*                                                                         *)
(* Agent A.  A Flask application: chat() runs in one thread per request,   *)
(* the threads share the dict `sessions` and the history lists.  A history *)
(* list is named by the number of the request that created it.  Texts are  *)
(* sequences of pieces, so that find, slicing and strip can be computed.   *)
(* Fields of chat[c] that are not variables of the code: status (the HTTP  *)
(* status of the answer), sent (the payloads posted to Agent B) and        *)
(* modelCalls (the number of generate_content calls).                      *)
(***************************************************************************)
EXTENDS Integers, Sequences, FiniteSets, TLC

\* ------------------------------------------------------------------ bounds
MaxTasks == 2        \* tasks submitted during the life of the process
MaxToolCalls == 2    \* tool requests the model backend issues, over all runs
MaxCalls == MaxToolCalls   \* tool requests of one reply
MaxChats == 2        \* /chat requests received by Agent A

Tasks == 1..MaxTasks
Chats == 1..MaxChats

\* ------------------------------------------------------- values and inputs
None == "None"
Session == "ClientSession"

\* tool lists the provider may answer list_tools with
ProviderToolLists ==
    { <<"create_surface", "update_data_model">>,
      <<"create_surface", "create_surface", "list_resources">> }

\* texts of the first message of the get_prompt answer; <<>> is "no messages"
ProviderPrompts == { <<>>, <<"A2UI">> }

\* request bodies
SkillIds == {"render_ui", "other"}
SessionIds == {"", "s1"}
Instructions == {"", "show"}

\* tool_call.function.arguments, a JSON text produced by the model backend
ArgsEmpty == "{}"
ArgsUri == "{\"uri\": \"u\"}"
ArgsBad == "{\"uri\": "

\* the (name, arguments) pairs the model backend may put in a tool call
CallKinds ==
    { [name |-> "list_resources", arguments |-> ArgsEmpty],
      [name |-> "read_resource", arguments |-> ArgsUri],
      [name |-> "read_resource", arguments |-> ArgsEmpty],
      [name |-> "create_surface", arguments |-> ArgsEmpty],
      [name |-> "update_data_model", arguments |-> ArgsEmpty],
      [name |-> "create_surface", arguments |-> ArgsBad] }

\* msg.tool_calls of one reply of at most n tool calls, before the backend
\* gives the calls their ids
ReplyShapes(n) == UNION { [1..k -> CallKinds] : k \in 0..n }

\* isError and content of a call_tool answer; "c1", "c2", "e1", "e2" are text
\* items, "res" is an embedded resource, whose model_dump() holds an AnyUrl
CallToolResults ==
    { [isError |-> TRUE, content |-> <<"e1", "e2">>],
      [isError |-> FALSE, content |-> <<>>],
      [isError |-> FALSE, content |-> <<"c1", "c2">>],
      [isError |-> FALSE, content |-> <<"c1", "res">>] }

\* ---------------------------------------------------------------- state
VARIABLES
    mcp_session,        \* None or the ClientSession
    mcp_tools_cache,    \* sequence of tool names
    a2ui_prompt_cache,  \* "" or the prompt text
    wpc,                \* the await mcp_worker is suspended at
    stream_live,        \* inside the streamable_http_client / ClientSession contexts
    cancel_requested,   \* worker_task.cancel() was called
    late_tick,          \* asyncio.sleep(1) returned normally after the cancel request
    task,               \* per task: the handle_a2a_task coroutine
    sessions,           \* agent_a.py: session_id -> its history list (0: no entry)
    lists,              \* agent_a.py: the history lists that were created
    chat                \* agent_a.py: per /chat request, the thread running chat()

vars == <<mcp_session, mcp_tools_cache, a2ui_prompt_cache, wpc, stream_live,
          cancel_requested, late_tick, task, sessions, lists, chat>>

shared == <<mcp_session, mcp_tools_cache, a2ui_prompt_cache>>
workerVars == <<wpc, stream_live, late_tick>>

\* the state of Agent B and the state of Agent A, two processes
rendererVars == <<mcp_session, mcp_tools_cache, a2ui_prompt_cache, wpc, stream_live,
                  cancel_requested, late_tick, task>>
orchVars == <<sessions, lists, chat>>

\* ------------------------------------------------------- pure functions

\* json.loads(tool_call.function.arguments): a dict as a set of <<key, value>>
JsonLoads(s) ==
    CASE s = ArgsEmpty -> [ok |-> TRUE, val |-> {}]
      [] s = ArgsUri -> [ok |-> TRUE, val |-> {<<"uri", "u">>}]
      [] OTHER -> [ok |-> FALSE, val |-> {}]

\* func_args.get(key)
DictGet(d, key) ==
    IF \E p \in d : p[1] = key
    THEN (CHOOSE p \in d : p[1] = key)[2]
    ELSE None

\* AnyUrl(uri) raises on None and on a text that is no URL
WellFormedUris == {"u"}
AnyUrlRaises(uri) == uri \notin WellFormedUris

\* openai_tools: the discovered tools followed by the two core resource tools
OpenAiTools(cache) == cache \o <<"list_resources", "read_resource">>

\* the two seed messages
SeedMessages(prompt, session_id, instruction) ==
    << [role |-> "system", content |-> prompt],
       [role |-> "user", content |-> <<session_id, instruction>>] >>

\* (mutant) isError is not looked at
CallToolContentIgnoresError(result) ==
    IF result.content # <<>>
    THEN [kind |-> "json", items |-> result.content]
    ELSE [kind |-> "Success", items |-> <<>>]

\* content of the tool message after call_tool returned
CallToolContent(result) ==
    IF result.isError
    THEN [kind |-> "Error: ", items |-> result.content]
    ELSE IF result.content # <<>>
         THEN [kind |-> "json", items |-> result.content]
         ELSE [kind |-> "Success", items |-> <<>>]

\* json.dumps(list) without default=str raises on an item that holds a value
\* of no JSON type
NoJsonType == {"res"}
JsonDumpsRaises(items) == \E i \in 1..Len(items) : items[i] \in NoJsonType

\* building the content after call_tool returned raises
CallToolContentRaises(result) ==
    ~result.isError /\ result.content # <<>> /\ JsonDumpsRaises(result.content)

\* content of the tool message after list_resources / read_resource returned
ResourceContent(items) == [kind |-> "json", items |-> items]

ToolMessage(tool_call, content) ==
    [role |-> "tool", tool_call_id |-> tool_call.id,
     name |-> tool_call.name, content |-> content]

\* the session operation a tool name is routed to
Route(func_name) ==
    IF func_name = "list_resources" THEN "list_resources"
    ELSE IF func_name = "read_resource" THEN "read_resource"
    ELSE "call_tool"

\* --------------------------------------------- one run (execute_ui_generation)

\* a task that has not been submitted
IdleTask ==
    [pc |-> "idle", messages |-> <<>>, openai_tools |-> <<>>, tool_calls |-> <<>>,
     cur |-> 0, response |-> "none", outcome |-> "none",
     nQueries |-> 0, nToolReplies |-> 0, nInvokes |-> 0, invoked |-> <<>>]

\* handle_a2a_task returns its fixed answer once execute_ui_generation returned
HandlerReturn(r) == [r EXCEPT !.pc = "returned", !.response = "completed"]

\* execute_ui_generation returns: its locals are gone; `how` is "done" for the
\* break and the failing stage for the except branch
RunReturns(r, how) ==
    HandlerReturn([r EXCEPT !.messages = <<>>, !.openai_tools = <<>>,
                            !.tool_calls = <<>>, !.cur = 0, !.invoked = <<>>,
                            !.outcome = how])

\* await openai_client.chat.completions.create(...)
IssueQuery(r) == [r EXCEPT !.pc = "awaitModel", !.cur = 0, !.nQueries = @ + 1]

\* (mutant) the for loop walks msg.tool_calls from its end
StartCallFromEnd(r, i) ==
    LET tool_call == r.tool_calls[Len(r.tool_calls) + 1 - i]
    IN  IF ~JsonLoads(tool_call.arguments).ok THEN RunReturns(r, "json")
        ELSE IF Route(tool_call.name) = "read_resource"
                /\ AnyUrlRaises(DictGet(JsonLoads(tool_call.arguments).val, "uri"))
        THEN RunReturns(r, "uri")
        ELSE [r EXCEPT !.pc = "awaitTool", !.cur = i,
                       !.nInvokes = @ + 1,
                       !.invoked = Append(@, [id |-> tool_call.id,
                                              op |-> Route(tool_call.name),
                                              name |-> tool_call.name])]

\* (mutant) a name that is not in the run's tool list is refused before the call
StartCallValidates(r, i) ==
    LET tool_call == r.tool_calls[i]
    IN  IF ~JsonLoads(tool_call.arguments).ok THEN RunReturns(r, "json")
        ELSE IF \A k \in 1..Len(r.openai_tools) : r.openai_tools[k] # tool_call.name
        THEN RunReturns(r, "session")
        ELSE IF Route(tool_call.name) = "read_resource"
                /\ AnyUrlRaises(DictGet(JsonLoads(tool_call.arguments).val, "uri"))
        THEN RunReturns(r, "uri")
        ELSE [r EXCEPT !.pc = "awaitTool", !.cur = i,
                       !.nInvokes = @ + 1,
                       !.invoked = Append(@, [id |-> tool_call.id,
                                              op |-> Route(tool_call.name),
                                              name |-> tool_call.name])]

\* the loop body for tool_calls[i] up to its await: json.loads, the routing,
\* AnyUrl(uri), then the session call is issued
StartCall(r, i) ==
    LET tool_call == r.tool_calls[i]
        parsed == JsonLoads(tool_call.arguments)
        func_name == tool_call.name
    IN  IF ~parsed.ok THEN RunReturns(r, "json")
        ELSE IF Route(func_name) = "read_resource"
                /\ AnyUrlRaises(DictGet(parsed.val, "uri"))
        THEN RunReturns(r, "uri")
        ELSE [r EXCEPT !.pc = "awaitTool", !.cur = i,
                       !.nInvokes = @ + 1,
                       !.invoked = Append(@, [id |-> tool_call.id,
                                              op |-> Route(func_name),
                                              name |-> func_name])]

\* (mutant) the for loop is left after the first tool message
AppendToolResultLeavesLoop(r, content) ==
    IssueQuery([r EXCEPT !.messages = Append(@, ToolMessage(r.tool_calls[r.cur], content))])

\* messages.append({"role": "tool", ...}) for tool_calls[cur], then the next
\* tool call of the for loop, or the next turn of the while loop
AppendToolResult(r, content) ==
    LET r1 == [r EXCEPT !.messages = Append(@, ToolMessage(r.tool_calls[r.cur], content))]
    IN  IF r1.cur < Len(r1.tool_calls) THEN StartCall(r1, r1.cur + 1)
        ELSE IssueQuery(r1)

\* the loop body for tool_calls[cur] after call_tool returned `result`
OnCallToolResult(r, result) ==
    IF CallToolContentRaises(result) THEN RunReturns(r, "dumps")
    ELSE AppendToolResult(r, CallToolContent(result))

\* the backend's reply: an assistant message whose tool calls carry fresh ids
AssistantMessage(r, shape) ==
    [role |-> "assistant",
     tool_calls |-> [i \in 1..Len(shape) |->
                       [id |-> <<r.nQueries, i>>, name |-> shape[i].name,
                        arguments |-> shape[i].arguments]]]

\* (mutant) no break: a reply without tool calls is followed by another query
OnModelReplyNoBreak(r, shape) ==
    LET msg == AssistantMessage(r, shape)
        r1 == [r EXCEPT !.messages = Append(@, msg), !.tool_calls = msg.tool_calls]
    IN  IF msg.tool_calls = <<>> THEN IssueQuery(r1)
        ELSE StartCall([r1 EXCEPT !.nToolReplies = @ + 1], 1)

\* msg = response.choices[0].message; messages.append(msg); break or dispatch
OnModelReply(r, shape) ==
    LET msg == AssistantMessage(r, shape)
        r1 == [r EXCEPT !.messages = Append(@, msg), !.tool_calls = msg.tool_calls]
    IN  IF msg.tool_calls = <<>> THEN RunReturns(r1, "done")
        ELSE StartCall([r1 EXCEPT !.nToolReplies = @ + 1], 1)

\* the start of execute_ui_generation up to its first await
StartRun(r, cache, prompt, session_id, instruction) ==
    IssueQuery([r EXCEPT !.openai_tools = OpenAiTools(cache),
                         !.messages = SeedMessages(prompt, session_id, instruction)])

\* handle_a2a_task up to its first await (or its HTTP error)
OnRequest(r, session, cache, prompt, skill_id, session_id, instruction) ==
    IF skill_id # "render_ui"
    THEN [r EXCEPT !.pc = "returned", !.response = "400"]
    ELSE IF session_id = "" \/ instruction = ""
    THEN [r EXCEPT !.pc = "returned", !.response = "400"]
    ELSE IF session = None
    THEN [r EXCEPT !.pc = "returned", !.response = "503"]
    ELSE StartRun(r, cache, prompt, session_id, instruction)

\* ------------------------------------------------ Agent A (agent_a.py)
\* Flask runs chat() in one thread per request; a step is one access to the
\* shared dict `sessions` or to a history list, or the return of a blocking
\* call (the model, the POST to Agent B).

\* request.json as a set of <<key, value>>; {} is also "no body"
ChatSessionIds == {"s1", "s2"}
ChatBodies ==
    { {}, {<<"message", "hi">>}, {<<"session_id", "s1">>} }
    \cup { {<<"message", "hi">>, <<"session_id", sid>>} : sid \in ChatSessionIds }

HasKey(d, key) == \E p \in d : p[1] = key

\* response.text as a sequence of pieces of text; Marker is "[DELEGATE_UI:"
Marker == "[DELEGATE_UI:"
ReplyTexts ==
    { <<"hello">>,
      <<Marker, " ", "chart", " ", "]", "bye">>,
      <<"ok", Marker, "chart", "!">>,
      <<Marker, "]">> }

\* response.text is None (a response without text)
NoText == <<None>>

\* the two fixed replies after a delegation
SuccessText == <<"I've asked my UI assistant to display that for you!">>
FailureText == <<"I tried to show you that visually, but the UI assistant is not responding.">>

\* what the POST to Agent B can end in: a status code, or no answer at all
RendererAnswers == {"200", "400", "503", "refused"}

\* the initial value of a history
Priming ==
    << [role |-> "user", text |-> <<"You are a helpful conversational AI assistant...">>],
       [role |-> "model", text |-> <<"Understood.">>] >>

\* `Marker in reply`
Contains(text, piece) == \E k \in 1..Len(text) : text[k] = piece

\* text.find(piece, start): the first index >= start (from 0), or -1
PyFind(text, piece, start) ==
    LET hits == {k \in start..(Len(text) - 1) : text[k + 1] = piece}
    IN  IF hits = {} THEN -1 ELSE CHOOSE k \in hits : \A h \in hits : k <= h

\* text[a:b] for a >= 0; a negative b counts from the end
PySlice(text, a, b) ==
    LET stop == IF b < 0 THEN Len(text) + b ELSE IF b > Len(text) THEN Len(text) ELSE b
    IN  IF a >= stop THEN <<>> ELSE SubSeq(text, a + 1, stop)

\* text.strip()
RECURSIVE Strip(_)
Strip(text) ==
    IF text = <<>> THEN <<>>
    ELSE IF Head(text) = " " THEN Strip(Tail(text))
    ELSE IF text[Len(text)] = " " THEN Strip(SubSeq(text, 1, Len(text) - 1))
    ELSE text

\* the instruction cut out of a reply that holds the marker
Instruction(reply) ==
    LET start_idx == PyFind(reply, Marker, 0) + 1
        end_idx == PyFind(reply, "]", start_idx)
    IN  Strip(PySlice(reply, start_idx, end_idx))

\* (mutant) the status code of the answer is not looked at
DelegationSucceedsOnAnyAnswer(answer) == answer # "refused"

\* send_a2a_task_to_agent_b: False on any exception, raise_for_status included
DelegationSucceeds(answer) == answer = "200"

\* a request that has not arrived
IdleChat ==
    [pc |-> "idle", session_id |-> None, user_msg |-> None, history |-> 0,
     status |-> "none", reply |-> NoText, sent |-> <<>>, modelCalls |-> 0]

\* ---------------------------------------------------------------- Init
Init ==
    /\ mcp_session = None
    /\ mcp_tools_cache = <<>>
    /\ a2ui_prompt_cache = ""
    /\ wpc = "created"
    /\ stream_live = FALSE
    /\ cancel_requested = FALSE
    /\ late_tick = FALSE
    /\ task = [t \in Tasks |-> IdleTask]
    /\ sessions = [sid \in ChatSessionIds |-> 0]
    /\ lists = [c \in Chats |-> <<>>]
    /\ chat = [c \in Chats |-> IdleChat]

\* ------------------------------------------------------- task actions

handle_a2a_task(t) ==
    /\ task[t].pc = "idle"
    /\ \A u \in Tasks : u < t => task[u].pc # "idle"   \* tasks are numbered as they arrive
    /\ ~cancel_requested                               \* the server has stopped accepting
    /\ \E skill_id \in SkillIds, session_id \in SessionIds, instruction \in Instructions :
         task' = [task EXCEPT ![t] =
                    OnRequest(@, mcp_session, mcp_tools_cache, a2ui_prompt_cache,
                              skill_id, session_id, instruction)]
    /\ UNCHANGED <<shared, workerVars, cancel_requested>>
    /\ UNCHANGED orchVars

\* tool requests the backend has issued so far: the dispatched ones and those
\* of a current turn still waiting in the for loop
RECURSIVE Requested(_)
Requested(S) ==
    IF S = {} THEN 0
    ELSE LET t == CHOOSE x \in S : TRUE
         IN  task[t].nInvokes
             + (IF task[t].pc = "awaitTool"
                THEN Len(task[t].tool_calls) - task[t].cur ELSE 0)
             + Requested(S \ {t})

ModelReplyWith(t, shape) ==
    /\ task[t].pc = "awaitModel"
    /\ Requested(Tasks) + Len(shape) <= MaxToolCalls
    /\ task' = [task EXCEPT ![t] = OnModelReply(@, shape)]
    /\ UNCHANGED <<shared, workerVars, cancel_requested>>
    /\ UNCHANGED orchVars

ModelReply(t) ==
    /\ task[t].pc = "awaitModel"
    /\ LET left == MaxToolCalls - Requested(Tasks)
       IN  \E shape \in ReplyShapes(IF left < MaxCalls THEN left ELSE MaxCalls) :
             ModelReplyWith(t, shape)

\* (mutant) a failed run tears the shared session down
ModelFailsDropsSession(t) ==
    /\ task[t].pc = "awaitModel"
    /\ task' = [task EXCEPT ![t] = RunReturns(@, "model")]
    /\ mcp_session' = None
    /\ UNCHANGED <<mcp_tools_cache, a2ui_prompt_cache, workerVars, cancel_requested>>
    /\ UNCHANGED orchVars

\* (mutant) the failure is handled inside the while loop: it is recorded and
\* the run stays in the loop, waiting for the backend again
ModelFailsKeepsLooping(t) ==
    /\ task[t].pc = "awaitModel"
    /\ task[t].outcome = "none"
    /\ task' = [task EXCEPT ![t].outcome = "model"]
    /\ UNCHANGED <<shared, workerVars, cancel_requested>>
    /\ UNCHANGED orchVars

\* the query raises, or the reply has no choices[0].message
ModelFails(t) ==
    /\ task[t].pc = "awaitModel"
    /\ task' = [task EXCEPT ![t] = RunReturns(@, "model")]
    /\ UNCHANGED <<shared, workerVars, cancel_requested>>
    /\ UNCHANGED orchVars

\* the session operation task t is waiting for
PendingOp(t) ==
    IF task[t].pc = "awaitTool" THEN Route(task[t].tool_calls[task[t].cur].name)
    ELSE "none"

\* mcp_session.list_resources() / read_resource(uri) returned `items`
ResourceReturns(t, items) ==
    /\ PendingOp(t) \in {"list_resources", "read_resource"}
    /\ stream_live
    /\ task' = [task EXCEPT ![t] = AppendToolResult(@, ResourceContent(items))]
    /\ UNCHANGED <<shared, workerVars, cancel_requested>>
    /\ UNCHANGED orchVars

\* (mutant) one conversation for all runs: the tool message also lands in the
\* conversation of every other run in progress
CallToolReturnsSharedMessages(t, result) ==
    /\ PendingOp(t) = "call_tool"
    /\ stream_live
    /\ task' = [u \in Tasks |->
                 IF u = t THEN OnCallToolResult(task[t], result)
                 ELSE IF task[u].pc \in {"awaitModel", "awaitTool"}
                 THEN [task[u] EXCEPT !.messages =
                         Append(@, ToolMessage(task[t].tool_calls[task[t].cur],
                                               CallToolContent(result)))]
                 ELSE task[u]]
    /\ UNCHANGED <<shared, workerVars, cancel_requested>>
    /\ UNCHANGED orchVars

\* mcp_session.call_tool(func_name, arguments=func_args) returned `result`
CallToolReturns(t, result) ==
    /\ PendingOp(t) = "call_tool"
    /\ stream_live
    /\ task' = [task EXCEPT ![t] = OnCallToolResult(@, result)]
    /\ UNCHANGED <<shared, workerVars, cancel_requested>>
    /\ UNCHANGED orchVars

ToolReturns(t) ==
    \/ ResourceReturns(t, <<"item1">>)
    \/ \E result \in CallToolResults : CallToolReturns(t, result)

\* (mutant) a session call on a stream that is gone never comes back
ToolRaisesNever(t) ==
    /\ task[t].pc = "awaitTool"
    /\ stream_live
    /\ task' = [task EXCEPT ![t] = RunReturns(@, "session")]
    /\ UNCHANGED <<shared, workerVars, cancel_requested>>
    /\ UNCHANGED orchVars

\* the session call raises (always the case once the stream is gone)
ToolRaises(t) ==
    /\ task[t].pc = "awaitTool"
    /\ task' = [task EXCEPT ![t] = RunReturns(@, "session")]
    /\ UNCHANGED <<shared, workerVars, cancel_requested>>
    /\ UNCHANGED orchVars

\* ------------------------------------------------------ worker actions

\* the exception handler of mcp_worker: both contexts are left, the globals stay
WorkerFailed ==
    /\ wpc' = "failed"
    /\ stream_live' = FALSE
    /\ UNCHANGED <<shared, late_tick, cancel_requested, task>>
    /\ UNCHANGED orchVars

WorkerStart ==
    /\ wpc = "created" /\ ~cancel_requested
    /\ wpc' = "opening"
    /\ UNCHANGED <<shared, stream_live, late_tick, cancel_requested, task>>
    /\ UNCHANGED orchVars

OpenStream ==
    /\ wpc = "opening" /\ ~cancel_requested
    /\ \/ /\ wpc' = "initializing"
          /\ stream_live' = TRUE
          /\ UNCHANGED <<shared, late_tick, cancel_requested, task>>
       \/ WorkerFailed
    /\ UNCHANGED orchVars

Initialize ==
    /\ wpc = "initializing" /\ ~cancel_requested
    /\ \/ /\ mcp_session' = Session
          /\ wpc' = "listing"
          /\ UNCHANGED <<mcp_tools_cache, a2ui_prompt_cache, stream_live, late_tick,
                         cancel_requested, task>>
       \/ WorkerFailed
    /\ UNCHANGED orchVars

ListTools ==
    /\ wpc = "listing" /\ ~cancel_requested
    /\ \/ /\ \E tools \in ProviderToolLists : mcp_tools_cache' = tools
          /\ wpc' = "prompting"
          /\ UNCHANGED <<mcp_session, a2ui_prompt_cache, stream_live, late_tick,
                         cancel_requested, task>>
       \/ WorkerFailed
    /\ UNCHANGED orchVars

GetPrompt ==
    /\ wpc = "prompting" /\ ~cancel_requested
    /\ \/ /\ \E texts \in ProviderPrompts :
                a2ui_prompt_cache' = IF texts # <<>> THEN texts[1] ELSE a2ui_prompt_cache
          /\ wpc' = "sleeping"
          /\ UNCHANGED <<mcp_session, mcp_tools_cache, stream_live, late_tick,
                         cancel_requested, task>>
       \/ WorkerFailed
    /\ UNCHANGED orchVars

KeepAlive ==
    /\ wpc = "sleeping" /\ ~cancel_requested
    /\ \/ /\ late_tick' = (late_tick \/ cancel_requested)
          /\ UNCHANGED <<shared, wpc, stream_live, cancel_requested, task>>
       \/ WorkerFailed
    /\ UNCHANGED orchVars

\* lifespan after its yield: worker_task.cancel()
Shutdown ==
    /\ ~cancel_requested
    /\ cancel_requested' = TRUE
    /\ UNCHANGED <<shared, workerVars, task>>
    /\ UNCHANGED orchVars

\* (mutant) the cancellation ends the task without leaving the contexts
WorkerCancelledLeaksStream ==
    /\ cancel_requested
    /\ wpc \notin {"failed", "cancelled"}
    /\ wpc' = "cancelled"
    /\ UNCHANGED <<shared, stream_live, late_tick, cancel_requested, task>>
    /\ UNCHANGED orchVars

\* the CancelledError reaches the worker at the await it is suspended at; it is
\* no Exception, so it leaves both contexts and ends the task
WorkerCancelled ==
    /\ cancel_requested
    /\ wpc \notin {"failed", "cancelled"}
    /\ wpc' = "cancelled"
    /\ stream_live' = FALSE
    /\ UNCHANGED <<shared, late_tick, cancel_requested, task>>
    /\ UNCHANGED orchVars

\* ------------------------------------------------------ Agent A actions

\* chat() up to the test `session_id not in sessions` of get_session_history
ChatReceive(c) ==
    /\ chat[c].pc = "idle"
    /\ \A d \in Chats : d < c => chat[d].pc # "idle"   \* requests are numbered as they arrive
    /\ \E data \in ChatBodies :
         IF data = {} \/ ~HasKey(data, "message") \/ ~HasKey(data, "session_id")
         THEN chat' = [chat EXCEPT ![c].pc = "returned", ![c].status = "400"]
         ELSE chat' = [chat EXCEPT ![c].session_id = DictGet(data, "session_id"),
                                   ![c].user_msg = DictGet(data, "message"),
                                   ![c].pc = IF sessions[DictGet(data, "session_id")] = 0
                                             THEN "create" ELSE "fetch"]
    /\ UNCHANGED <<sessions, lists>>
    /\ UNCHANGED rendererVars

\* sessions[session_id] = [priming pair]: a new list, whatever the entry holds by now
ChatCreate(c) ==
    /\ chat[c].pc = "create"
    /\ lists' = [lists EXCEPT ![c] = Priming]
    /\ sessions' = [sessions EXCEPT ![chat[c].session_id] = c]
    /\ chat' = [chat EXCEPT ![c].pc = "fetch"]
    /\ UNCHANGED rendererVars

\* return sessions[session_id]; history.append(user message); the model is called
ChatAppendUser(c) ==
    /\ chat[c].pc = "fetch"
    /\ LET history == sessions[chat[c].session_id]
       IN  /\ lists' = [lists EXCEPT ![history] =
                          Append(@, [role |-> "user", text |-> <<chat[c].user_msg>>])]
           /\ chat' = [chat EXCEPT ![c].history = history, ![c].pc = "awaitModel",
                                    ![c].modelCalls = @ + 1]
    /\ UNCHANGED sessions
    /\ UNCHANGED rendererVars

\* generate_content returned and response.text is `text`
ChatModelReplyWith(c, text) ==
    /\ chat[c].pc = "awaitModel"
    /\ IF text = NoText                       \* `Marker in None` raises
       THEN /\ chat' = [chat EXCEPT ![c].pc = "returned", ![c].status = "500"]
            /\ UNCHANGED lists
       ELSE IF Contains(text, Marker)
       THEN /\ chat' = [chat EXCEPT ![c].pc = "awaitRenderer",
                                     ![c].sent = Append(@, [skill_id |-> "render_ui",
                                                            session_id |-> chat[c].session_id,
                                                            instruction |-> Instruction(text)])]
            /\ UNCHANGED lists
       ELSE /\ lists' = [lists EXCEPT ![chat[c].history] =
                           Append(@, [role |-> "model", text |-> text])]
            /\ chat' = [chat EXCEPT ![c].pc = "returned", ![c].status = "200",
                                     ![c].reply = text]
    /\ UNCHANGED sessions
    /\ UNCHANGED rendererVars

ChatModelReply(c) == \E text \in ReplyTexts \cup {NoText} : ChatModelReplyWith(c, text)

\* generate_content raised
ChatModelFails(c) ==
    /\ chat[c].pc = "awaitModel"
    /\ chat' = [chat EXCEPT ![c].pc = "returned", ![c].status = "500"]
    /\ UNCHANGED <<sessions, lists>>
    /\ UNCHANGED rendererVars

\* requests.post returned or raised; Agent B answers 400 to an empty instruction
ChatRendererAnswersWith(c, answer) ==
    /\ chat[c].pc = "awaitRenderer"
    /\ (chat[c].sent[Len(chat[c].sent)].instruction = <<>>) => answer # "200"
    /\ LET reply == IF DelegationSucceeds(answer) THEN SuccessText ELSE FailureText
       IN  /\ lists' = [lists EXCEPT ![chat[c].history] =
                          Append(@, [role |-> "model", text |-> reply])]
           /\ chat' = [chat EXCEPT ![c].pc = "returned", ![c].status = "200",
                                    ![c].reply = reply]
    /\ UNCHANGED sessions
    /\ UNCHANGED rendererVars

ChatRendererAnswers(c) == \E answer \in RendererAnswers : ChatRendererAnswersWith(c, answer)

\* one step of the thread serving /chat request c
ChatStep(c) ==
    \/ ChatReceive(c)
    \/ ChatCreate(c)
    \/ ChatAppendUser(c)
    \/ ChatModelReply(c)
    \/ ChatModelFails(c)
    \/ ChatRendererAnswers(c)

\* Agent A on its own: Agent B is the other end of the POST
OrchNext == \E c \in Chats : ChatStep(c)
OrchSpec == Init /\ [][OrchNext]_vars

\* one step of the coroutine serving task t
TaskStep(t) ==
    \/ handle_a2a_task(t)
    \/ ModelReply(t)
    \/ ModelFails(t)
    \/ ToolReturns(t)
    \/ ToolRaises(t)

\* one step of mcp_worker or of lifespan
LifespanStep ==
    \/ WorkerStart
    \/ OpenStream
    \/ Initialize
    \/ ListTools
    \/ GetPrompt
    \/ KeepAlive
    \/ Shutdown
    \/ WorkerCancelled

Next == (\E t \in Tasks : TaskStep(t)) \/ LifespanStep

\* the process with any number of tasks up to MaxTasks, concurrently
Spec == Init /\ [][Next]_vars

\* the process serving a single task
OneRunNext == TaskStep(1) \/ LifespanStep
OneRunSpec == Init /\ [][OneRunNext]_vars

\* the event loop runs a task whose cancellation was requested
OneRunFairSpec == OneRunSpec /\ WF_vars(WorkerCancelled)

\* every model query and every session call of the task returns or raises
OneRunLiveSpec ==
    /\ OneRunSpec
    /\ WF_vars(ModelFails(1) \/ ModelReply(1))
    /\ WF_vars(ToolRaises(1) \/ ToolReturns(1))

\* ------------------------------------------------------------ vocabulary

InFlight(t) == task[t].pc \in {"awaitModel", "awaitTool"}
Failures == {"model", "json", "uri", "session", "dumps"}

AssistantIdx(msgs) == {k \in 1..Len(msgs) : msgs[k].role = "assistant"}
ToolIdx(msgs) == {j \in 1..Len(msgs) : msgs[j].role = "tool"}

\* task t's request enters the handler in this step
Submitted(t) == task[t].pc = "idle" /\ task'[t].pc # "idle"
\* ... and it passed the two checks of the request body
SubmittedValid(t) == Submitted(t) /\ task'[t].response # "400"

\* ---------------------------------------------------------------- claims

\* C1: whenever a run has a model query in flight that is not its first, every
\* tool request of every assistant message of its conversation has exactly one
\* tool message carrying its id, and every tool message carries the id of a
\* request of the nearest assistant message before it.
C1_NoDanglingRequest ==
    \A t \in Tasks :
      (task[t].pc = "awaitModel" /\ task[t].nQueries > 1) =>
        LET msgs == task[t].messages
        IN  /\ \A k \in AssistantIdx(msgs) : \A i \in 1..Len(msgs[k].tool_calls) :
                 Cardinality({j \in ToolIdx(msgs) :
                                msgs[j].tool_call_id = msgs[k].tool_calls[i].id}) = 1
            /\ \A j \in ToolIdx(msgs) :
                 \E k \in AssistantIdx(msgs) :
                   /\ k < j
                   /\ \A k2 \in AssistantIdx(msgs) : k2 < j => k2 <= k
                   /\ \E i \in 1..Len(msgs[k].tool_calls) :
                        msgs[k].tool_calls[i].id = msgs[j].tool_call_id

\* a third query in flight: two earlier assistant messages, each with an answered request
C1_Witness ==
    \E t \in Tasks :
      /\ task[t].pc = "awaitModel" /\ task[t].nQueries = 3
      /\ Cardinality(AssistantIdx(task[t].messages)) = 2
      /\ Cardinality(ToolIdx(task[t].messages)) = 2

\* mcp_worker has not yet returned from get_prompt
DiscoveryPending == wpc \in {"created", "opening", "initializing", "listing", "prompting"}

\* C2 (as claimed): a valid task that arrives while mcp_worker has not yet got
\* past list_tools and get_prompt is answered 503 and starts no model query.
C2_RejectedUntilDiscovered ==
    [][\A t \in Tasks :
         (SubmittedValid(t) /\ DiscoveryPending) =>
            (task'[t].response = "503" /\ task'[t].nQueries = 0)]_vars

\* C3 (as claimed): a run that ended in its except branch (failed model query,
\* malformed reply, ...) is never answered with status "completed".
C3_FailureReported ==
    \A t \in Tasks : task[t].outcome \in Failures => task[t].response # "completed"

\* a read_resource request whose arguments parse and hold no uri
MissingUri(tool_call) ==
    /\ tool_call.name = "read_resource"
    /\ JsonLoads(tool_call.arguments).ok
    /\ DictGet(JsonLoads(tool_call.arguments).val, "uri") = None

\* C4 (as claimed): a read_resource request without uri does not abort the run:
\* no run ends in the except branch because AnyUrl(uri) raised, and once the for
\* loop is past such a request the conversation holds a tool message for it.
C4_MissingUriRecovered ==
    \A t \in Tasks :
      /\ task[t].outcome # "uri"
      /\ InFlight(t) =>
           \A i \in 1..Len(task[t].tool_calls) :
             (MissingUri(task[t].tool_calls[i]) /\ (i < task[t].cur \/ task[t].pc = "awaitModel"))
               => \E j \in ToolIdx(task[t].messages) :
                    task[t].messages[j].tool_call_id = task[t].tool_calls[i].id

\* C5: when call_tool returns isError for the request being dispatched, the
\* step appends the tool message of that request with the provider's content
\* marked as an error and goes on as after any other result: the next request of
\* the turn is dispatched, or after the last one the next model query is issued.
\* The run can end in that step only because preparing the next request raised.
C5_RemoteErrorSurfaced ==
    [][\A t \in Tasks : \A result \in CallToolResults :
         (result.isError /\ CallToolReturns(t, result)) =>
           LET r == task[t]
               r2 == task'[t]
               tool_call == r.tool_calls[r.cur]
               expected == [role |-> "tool", tool_call_id |-> tool_call.id,
                            name |-> tool_call.name,
                            content |-> [kind |-> "Error: ", items |-> result.content]]
           IN  /\ r2.outcome \in {"none", "json", "uri"}
               /\ r2.outcome = "none" =>
                    /\ r2.messages = Append(r.messages, expected)
                    /\ IF r.cur < Len(r.tool_calls)
                       THEN r2.pc = "awaitTool" /\ r2.cur = r.cur + 1
                            /\ r2.nInvokes = r.nInvokes + 1
                       ELSE r2.pc = "awaitModel" /\ r2.nQueries = r.nQueries + 1
               /\ r2.outcome # "none" =>
                    /\ r.cur < Len(r.tool_calls)
                    /\ \/ ~JsonLoads(r.tool_calls[r.cur + 1].arguments).ok
                       \/ MissingUri(r.tool_calls[r.cur + 1])]_vars

\* a turn of two requests whose first got isError: its tool message carries the
\* provider's content, the second request was dispatched and answered, and the
\* next model query is in flight
C5_Witness ==
    \E t \in Tasks :
      /\ task[t].pc = "awaitModel" /\ Len(task[t].tool_calls) = 2
      /\ LET msgs == task[t].messages
         IN  /\ Len(msgs) = 5
             /\ msgs[4].role = "tool" /\ msgs[4].tool_call_id = task[t].tool_calls[1].id
             /\ msgs[4].content = [kind |-> "Error: ", items |-> <<"e1", "e2">>]
             /\ msgs[5].role = "tool" /\ msgs[5].tool_call_id = task[t].tool_calls[2].id

\* C6: a reply without tool requests ends the run at once with outcome "done";
\* a run that ends so has made one model query more than it got replies with
\* tool requests (one query and no session call if there was no such reply);
\* and a run that is done never changes again.
C6_EndsAtFirstPlainReply ==
    [][\A t \in Tasks :
         /\ ModelReplyWith(t, <<>>) =>
              (task'[t].outcome = "done" /\ task'[t].pc = "returned")
         /\ (task[t].outcome = "none" /\ task'[t].outcome = "done") =>
              /\ task'[t].nQueries = task'[t].nToolReplies + 1
              /\ task'[t].nQueries = task[t].nQueries
              /\ task'[t].nInvokes = task[t].nInvokes
              /\ task'[t].nToolReplies = 0 =>
                   (task'[t].nQueries = 1 /\ task'[t].nInvokes = 0)
         /\ task[t].outcome = "done" => task'[t] = task[t]]_vars

\* a run done after two replies with tool requests: three queries, two session calls
C6_Witness ==
    \E t \in Tasks :
      /\ task[t].outcome = "done" /\ task[t].nToolReplies = 2
      /\ task[t].nQueries = 3 /\ task[t].nInvokes = 2

\* ids of the tool requests of a conversation, in message and list order
RECURSIVE RequestIds(_)
RequestIds(msgs) ==
    IF msgs = <<>> THEN <<>>
    ELSE LET m == Head(msgs)
         IN  (IF m.role = "assistant"
              THEN [i \in 1..Len(m.tool_calls) |-> m.tool_calls[i].id]
              ELSE <<>>) \o RequestIds(Tail(msgs))

\* ids carried by the tool messages of a conversation, in message order
RECURSIVE ResultIds(_)
ResultIds(msgs) ==
    IF msgs = <<>> THEN <<>>
    ELSE LET m == Head(msgs)
         IN  (IF m.role = "tool" THEN <<m.tool_call_id>> ELSE <<>>)
             \o ResultIds(Tail(msgs))

InvokedIds(log) == [i \in 1..Len(log) |-> log[i].id]

\* C7: the session calls of a run are issued in the order of the model's
\* requests and the tool messages are appended in that order: while a session
\* call is in flight, the calls issued are the first k requests and the tool
\* messages answer the first k-1; when a model query is in flight every request
\* has been dispatched and answered, in order.
C7_DispatchOrder ==
    \A t \in Tasks :
      InFlight(t) =>
        LET req == RequestIds(task[t].messages)
            res == ResultIds(task[t].messages)
            inv == InvokedIds(task[t].invoked)
        IN  /\ Len(inv) <= Len(req) /\ inv = SubSeq(req, 1, Len(inv))
            /\ Len(res) <= Len(req) /\ res = SubSeq(req, 1, Len(res))
            /\ task[t].pc = "awaitTool" => Len(inv) = Len(res) + 1
            /\ task[t].pc = "awaitModel" => (inv = req /\ res = req)

\* one reply asked for create_surface and then update_data_model: two session
\* calls in that order, two tool messages in that order, next query in flight
C7_Witness ==
    \E t \in Tasks :
      /\ task[t].pc = "awaitModel" /\ Len(task[t].tool_calls) = 2
      /\ task[t].tool_calls[1].name = "create_surface"
      /\ task[t].tool_calls[2].name = "update_data_model"
      /\ task[t].invoked = << [id |-> task[t].tool_calls[1].id, op |-> "call_tool",
                               name |-> "create_surface"],
                              [id |-> task[t].tool_calls[2].id, op |-> "call_tool",
                               name |-> "update_data_model"] >>
      /\ ResultIds(task[t].messages) = << task[t].tool_calls[1].id, task[t].tool_calls[2].id >>

\* C8 (as claimed): once mcp_worker has ended in its exception handler, every
\* valid task submitted is answered 503.
C8_FailedConnectRejects ==
    [][\A t \in Tasks :
         (SubmittedValid(t) /\ wpc = "failed") => task'[t].response = "503"]_vars

ConnectionLive == mcp_session # None /\ stream_live
SomeRunFailed == \E u \in Tasks : task[u].outcome \in Failures

\* the next task arrives and its run starts
AcceptNow(t) == handle_a2a_task(t) /\ task'[t].pc = "awaitModel"

\* C9: the step in which a run fails changes nothing but that task: the session,
\* the tool cache, the prompt cache, the worker and every other task stay as they
\* are.  After a failure, while the connection is live, the next task can be
\* accepted, a valid task submitted is accepted, and an accepted run whose model
\* query is in flight can end with a plain reply.
C9_ServesAfterFailure ==
    [][\A t \in Tasks :
         /\ (task[t].outcome = "none" /\ task'[t].outcome \in Failures) =>
              /\ shared' = shared
              /\ workerVars' = workerVars
              /\ cancel_requested' = cancel_requested
              /\ \A u \in Tasks \ {t} : task'[u] = task[u]
         /\ (SomeRunFailed /\ ConnectionLive /\ ~cancel_requested
               /\ task[t].pc = "idle" /\ \A u \in Tasks : u < t => task[u].pc # "idle") =>
              ENABLED AcceptNow(t)
         /\ (SomeRunFailed /\ ConnectionLive /\ SubmittedValid(t)) =>
              (task'[t].pc = "awaitModel" /\ task'[t].nQueries = 1)
         /\ (SomeRunFailed /\ task[t].pc = "awaitModel") =>
              ENABLED ModelReplyWith(t, <<>>)]_vars

\* an earlier task failed, a later one is done, the connection is live
C9_Witness ==
    \E t, u \in Tasks :
      /\ t < u
      /\ task[t].outcome \in Failures
      /\ task[u].outcome = "done"
      /\ ConnectionLive

\* C10: worker_task.cancel() can be called whatever the runs are doing; from
\* then on the worker can always take the cancellation, never lets a sleep return
\* normally, and once it has taken it both contexts are left; under fair
\* scheduling of the worker the stream is eventually released for good.
C10_ShutdownReleases ==
    /\ [][/\ ~cancel_requested => ENABLED Shutdown
          /\ cancel_requested => cancel_requested'
          /\ (cancel_requested /\ wpc \notin {"failed", "cancelled"}) =>
                ENABLED WorkerCancelled
          /\ ~late_tick'
          /\ wpc' \in {"failed", "cancelled"} => ~stream_live'
          /\ wpc \in {"failed", "cancelled"} => wpc' = wpc]_vars
    /\ cancel_requested ~> [](~stream_live)

\* cancelled and released while a run is still in flight
C10_Witness ==
    /\ cancel_requested /\ wpc = "cancelled" /\ ~stream_live
    /\ mcp_session # None
    /\ \E t \in Tasks : InFlight(t)

\* msgs2 is msgs with messages appended
Extends(msgs, msgs2) ==
    Len(msgs) <= Len(msgs2) /\ SubSeq(msgs2, 1, Len(msgs)) = msgs

\* C11: a step of the coroutine of task t changes task t only: the session, the
\* tool cache, the prompt cache, the worker and every other task stay as they
\* are, whatever the other runs are doing.  While the run goes on its
\* conversation only grows, every tool message appended carries the id and the
\* name of the run's own request being dispatched, and a task that has no run
\* in progress holds no conversation.
C11_RunsIsolated ==
    [][\A t \in Tasks :
         /\ task'[t] # task[t] =>
              /\ shared' = shared
              /\ workerVars' = workerVars
              /\ cancel_requested' = cancel_requested
              /\ \A u \in Tasks \ {t} : task'[u] = task[u]
         /\ (InFlight(t) /\ task'[t].pc \in {"awaitModel", "awaitTool"}) =>
              /\ Extends(task[t].messages, task'[t].messages)
              /\ \A j \in (Len(task[t].messages) + 1)..Len(task'[t].messages) :
                   task'[t].messages[j].role = "tool" =>
                     /\ task[t].pc = "awaitTool"
                     /\ task'[t].messages[j].tool_call_id = task[t].tool_calls[task[t].cur].id
                     /\ task'[t].messages[j].name = task[t].tool_calls[task[t].cur].name
         /\ task'[t].pc \notin {"awaitModel", "awaitTool"} => task'[t].messages = <<>>]_vars

\* two runs interleaved: both got a tool result appended and both have their
\* second model query in flight
C11_Witness ==
    /\ \A t \in {1, 2} :
         /\ task[t].pc = "awaitModel" /\ task[t].nQueries = 2
         /\ Cardinality(ToolIdx(task[t].messages)) = 1
    /\ task[1].messages[4].name # task[2].messages[4].name

\* no name occurs twice in a list of tool names
NamesUnique(names) ==
    \A i, j \in 1..Len(names) : names[i] = names[j] => i = j

\* C12 (as claimed): the tool list offered to the model by a run in progress
\* never holds a name twice.
C12_CatalogNamesUnique ==
    \A t \in Tasks : InFlight(t) => NamesUnique(task[t].openai_tools)

\* C13 (as claimed): at every await boundary, where a handler or a run may be
\* scheduled, the three globals are all at their initial values or discovery
\* is over: the session is never set while list_tools or get_prompt is still
\* to return.
C13_InstalledAtomically ==
    /\ mcp_session = None => (mcp_tools_cache = <<>> /\ a2ui_prompt_cache = "")
    /\ mcp_session # None => ~DiscoveryPending

\* the state of the run of a task, in the words of the loop's state machine
Phase(r) ==
    IF r.outcome = "done" THEN "Done"
    ELSE IF r.outcome \in Failures THEN "Failed"
    ELSE IF r.pc = "awaitModel" THEN "AwaitingModel"
    ELSE IF r.pc = "awaitTool" THEN "DispatchingTools"
    ELSE "NoRun"

\* the moves of a run; DispatchingTools repeats once per request of the turn
RunTransitions ==
    { <<"NoRun", "NoRun">>, <<"NoRun", "AwaitingModel">>,
      <<"AwaitingModel", "Done">>, <<"AwaitingModel", "DispatchingTools">>,
      <<"DispatchingTools", "DispatchingTools">>, <<"DispatchingTools", "AwaitingModel">>,
      <<"AwaitingModel", "Failed">>, <<"DispatchingTools", "Failed">> }

\* C14: every step that changes a task moves its run along AwaitingModel -> Done,
\* AwaitingModel -> DispatchingTools -> AwaitingModel, or into Failed from one
\* of the two; a reply without tool calls leads to Done and only such a reply
\* does; DispatchingTools is entered with a reply that holds tool calls and left
\* for AwaitingModel after the last of them, with a new query; and a run that
\* is Done or Failed never changes again: no query, no session call, no message.
C14_RunStateMachine ==
    [][\A t \in Tasks :
         /\ task'[t] # task[t] =>
              <<Phase(task[t]), Phase(task'[t])>> \in RunTransitions
         /\ (Phase(task[t]) = "AwaitingModel" /\ Phase(task'[t]) = "Done") <=>
              ModelReplyWith(t, <<>>)
         /\ (Phase(task[t]) = "AwaitingModel" /\ Phase(task'[t]) = "DispatchingTools") =>
              (task'[t].nToolReplies = task[t].nToolReplies + 1 /\ task'[t].tool_calls # <<>>)
         /\ (Phase(task[t]) = "DispatchingTools" /\ Phase(task'[t]) = "AwaitingModel") =>
              (task[t].cur = Len(task[t].tool_calls)
                 /\ task'[t].nQueries = task[t].nQueries + 1)
         /\ Phase(task[t]) \in {"Done", "Failed"} =>
              /\ task'[t] = task[t]
              /\ ~ENABLED ModelReply(t) /\ ~ENABLED ToolReturns(t)]_vars

\* a run that went twice through DispatchingTools and failed there; the worker
\* has moved on since
C14_Witness ==
    /\ task[1].outcome = "session" /\ task[1].nQueries = 2 /\ task[1].nToolReplies = 2
    /\ cancel_requested

\* the session call of task t returns and a payload is built from its result
ReturnsPayload(t) ==
    \/ ResourceReturns(t, <<"item1">>)
    \/ \E result \in CallToolResults :
         ~CallToolContentRaises(result) /\ CallToolReturns(t, result)

\* no run is in progress, and every run that was started is Done or Failed
\* and its request is answered
AllRunsAnswered ==
    \A t \in Tasks :
      /\ ~InFlight(t)
      /\ task[t].nQueries > 0 =>
           /\ Phase(task[t]) \in {"Done", "Failed"}
           /\ task[t].pc = "returned"
           /\ task[t].response = "completed"

\* C15: whenever a run is in progress, eventually every run that was started
\* is Done or Failed with its request answered (a run never starts again),
\* when every model query and every session call returns or raises
\* (the backend's replies with tool requests are finitely many: MaxToolCalls).
\* The loop has no turn limit of its own: whatever the number of queries so
\* far, the tool message of the last request of a turn is followed by the
\* next query.
C15_RunTerminates ==
    /\ (\E t \in Tasks : InFlight(t)) ~> AllRunsAnswered
    /\ [][\A t \in Tasks :
            (task[t].pc = "awaitTool" /\ task[t].cur = Len(task[t].tool_calls)
               /\ ReturnsPayload(t)) =>
              (task'[t].pc = "awaitModel" /\ task'[t].nQueries = task[t].nQueries + 1)]_vars

\* a run that ended by the break after as many turns with tool requests as the
\* backend had to give, and was answered although the stream is gone
C15_Witness ==
    /\ task[1].outcome = "done" /\ task[1].response = "completed"
    /\ task[1].nToolReplies = MaxToolCalls
    /\ wpc = "failed"

\* the two names execute_ui_generation serves itself
BuiltIns == {"list_resources", "read_resource"}

\* the request whose session call is issued in a step to pc = "awaitTool"
Dispatched(r) == r.tool_calls[r.cur]

\* the request has a name that is no built-in and arguments that parse
Forwardable(tool_call) ==
    tool_call.name \notin BuiltIns /\ JsonLoads(tool_call.arguments).ok

C17_ResultNormalized ==
    [][\A t \in Tasks : \A result \in CallToolResults :
         CallToolReturns(t, result) =>
           /\ task'[t].outcome \in {"none", "json", "uri"}
           /\ task'[t].outcome = "none" =>
                task'[t].messages[Len(task[t].messages) + 1].content =
                  (IF result.isError
                   THEN [kind |-> "Error: ", items |-> result.content]
                   ELSE IF result.content = <<>>
                   THEN [kind |-> "Success", items |-> <<>>]
                   ELSE [kind |-> "json", items |-> result.content])]_vars

\* sessions.get(sid): the history of a session, <<>> if it has none
History(sid) == IF sessions[sid] = 0 THEN <<>> ELSE lists[sessions[sid]]

\* the messages of a role in a history
RoleIdx(h, role) == {k \in 1..Len(h) : h[k].role = role}

\* the requests for session sid that have appended their user message
Appended(sid) ==
    {c \in Chats : chat[c].session_id = sid
                    /\ chat[c].pc \in {"awaitModel", "awaitRenderer", "returned"}}

\* C18 (as claimed): every history starts with the priming pair and holds, after
\* it, one user message per request made for its session and one model message
\* per such request that was answered 200, the model message of a request
\* never before its user message; a session without requests has no history
\* changed by others; a request answered 400 belongs to no session and made no
\* model call.
C18_HistoriesFaithful ==
    /\ \A sid \in ChatSessionIds :
         LET h == History(sid)
             answered == {c \in Appended(sid) : chat[c].status = "200"}
         IN  /\ h = <<>> => Appended(sid) = {}
             /\ h # <<>> =>
                  /\ SubSeq(h, 1, 2) = Priming
                  /\ Cardinality(RoleIdx(h, "user")) = 1 + Cardinality(Appended(sid))
                  /\ Cardinality(RoleIdx(h, "model")) = 1 + Cardinality(answered)
                  /\ \A k \in 1..Len(h) :
                       Cardinality({j \in RoleIdx(h, "model") : j <= k})
                         <= Cardinality({j \in RoleIdx(h, "user") : j <= k})
    /\ \A c \in Chats :
         chat[c].status = "400" => (chat[c].session_id = None /\ chat[c].modelCalls = 0)

\* the POST ended in a 4xx/5xx status or without an answer
HttpOrTransportError(answer) == answer \in {"400", "503", "refused"}

\* C19: a request sends a task to Agent B in the step that handles the model's
\* reply, and does so exactly if the reply holds the marker; it never sends a
\* second one; the task carries skill render_ui and the session_id of the
\* request.  When the POST has ended, the request is answered 200 with the
\* success text if Agent B answered without HTTP or transport error and with
\* the failure text otherwise, and that text is appended as a model message to
\* the history list the request works on.
C19_Delegation ==
    [][\A c \in Chats :
         /\ Len(chat'[c].sent) <= 1
         /\ \A text \in ReplyTexts \cup {NoText} :
              ChatModelReplyWith(c, text) =>
                ((chat'[c].sent # chat[c].sent) <=> (text # NoText /\ Contains(text, Marker)))
         /\ chat'[c].sent # chat[c].sent =>
              /\ \E text \in ReplyTexts : ChatModelReplyWith(c, text)
              /\ chat'[c].sent = <<[skill_id |-> "render_ui",
                                    session_id |-> chat[c].session_id,
                                    instruction |-> chat'[c].sent[1].instruction]>>
              /\ chat[c].session_id \in ChatSessionIds
         /\ \A answer \in RendererAnswers :
              ChatRendererAnswersWith(c, answer) =>
                /\ chat'[c].pc = "returned" /\ chat'[c].status = "200"
                /\ chat'[c].reply =
                     (IF HttpOrTransportError(answer) THEN FailureText ELSE SuccessText)
                /\ lists'[chat[c].history] =
                     Append(lists[chat[c].history],
                            [role |-> "model", text |-> chat'[c].reply])
         /\ (chat'[c].pc = "returned" /\ chat'[c].sent # <<>>) =>
              (chat'[c].status = "200" /\ chat'[c].reply \in {SuccessText, FailureText})]_vars

\* one request delegated and was told so, another delegated in vain; both
\* were answered 200 and neither sent a second task
C19_Witness ==
    \E c, d \in Chats :
      /\ chat[c].pc = "returned" /\ chat[c].status = "200" /\ Len(chat[c].sent) = 1
      /\ chat[c].reply = SuccessText
      /\ chat[d].pc = "returned" /\ chat[d].status = "200" /\ Len(chat[d].sent) = 1
      /\ chat[d].reply = FailureText
      /\ chat[c].sent[1].session_id # chat[d].sent[1].session_id

====
